---- MODULE Spec2Model ----
(***************************************************************************)
(* Model of txtai's PoolingFactory (models/pooling/factory.py).            *)
(*                                                                         *)
(* One session: a caller holds a configuration mapping, a local file       *)
(* system and a Hugging Face Hub repository state, and calls               *)
(* PoolingFactory.create on the same configuration up to MaxCalls times.   *)
(* create is modelled statement by statement; the static helpers method,   *)
(* maxlength and load are operators.                                       *)
(***************************************************************************)
EXTENDS Integers, Sequences, FiniteSets, TLC

\* ------------------------------------------------------------------ bounds
\* Largest integer used for a configured maxlength / a max_seq_length field.
MaxLen ==
    2

\* Number of create calls made on the same configuration in one session.
MaxCalls ==
    2

\* ------------------------------------------------------- Python values
\* A Python value of type NoneType, bool or int. bool keeps its integer value
\* (True is 1, False is 0), as in Python.
PyNone ==
    [t |-> "NoneType", n |-> 0]

PyTrue ==
    [t |-> "bool", n |-> 1]

PyFalse ==
    [t |-> "bool", n |-> 0]

PyInt(k) ==
    [t |-> "int", n |-> k]

\* isinstance(v, bool)
IsBool(v) ==
    v.t = "bool"

\* bool(v): None, False and 0 are falsy
Truthy(v) ==
    v.n # 0

\* method values: None, the empty string, the three known names and one
\* unrecognized name
NoMethod ==
    "<None>"

Methods ==
    {NoMethod, "", "pooling", "clspooling", "meanpooling", "maxpooling"}

\* not method
MethodFalsy(m) ==
    m \in {NoMethod, ""}

\* path values: a bytes object, None, or a string
BytesPath ==
    "<bytes>"

NonePath ==
    "<None>"

StrPaths ==
    {"model"}

Paths ==
    {BytesPath, NonePath} \cup StrPaths

\* isinstance(path, bytes)
IsBytes(p) ==
    p = BytesPath

\* isinstance(path, str)
IsStr(p) ==
    p \in StrPaths

\* maxlength values of a configuration: unset, a boolean or an integer
MaxLengths ==
    {PyNone, PyTrue, PyFalse} \cup {PyInt(k) : k \in 1..MaxLen}

\* The configuration mapping, read with config.get(x)
Configs ==
    [method : Methods, path : Paths, maxlength : MaxLengths]

\* ------------------------------------------------------ local file system
FsKinds ==
    {"file", "dir", "missing"}

\* os.path.isfile(path)
isfile(fs, p) ==
    fs[p] = "file"

\* os.path.exists(path)
exists(fs, p) ==
    fs[p] \in {"file", "dir"}

\* ------------------------------------------------------ Hugging Face Hub
PoolingFile ==
    "1_Pooling/config.json"

TokenizerFile ==
    "sentence_bert_config.json"

\* A field of the pooling config: absent from the JSON object, true or false
Flags ==
    {"missing", "true", "false"}

\* Outcome of loading 1_Pooling/config.json: the parsed object, an
\* EntryNotFoundError, or any other failure of the download
PoolingStates ==
    [st : {"found"}, cls : Flags, mean : Flags]
        \cup {[st |-> "notfound", cls |-> "missing", mean |-> "missing"],
              [st |-> "error", cls |-> "missing", mean |-> "missing"]}

\* Outcome of loading sentence_bert_config.json; has says whether the object
\* holds max_seq_length
TokenizerStates ==
    [st : {"found"}, has : {TRUE}, max_seq_length : {PyInt(k) : k \in 0..MaxLen}]
        \cup {[st |-> "found", has |-> FALSE, max_seq_length |-> PyNone],
              [st |-> "notfound", has |-> FALSE, max_seq_length |-> PyNone],
              [st |-> "error", has |-> FALSE, max_seq_length |-> PyNone]}

\* PoolingFactory.load(path, name): hf_hub_download + json.load. The outcome
\* is the repository's state for that file.
PoolingFactory_load(remote, p, name) ==
    remote[name]

\* A resolver's outcome: a value, or an exception that leaves the resolver
Returned(v) ==
    [exc |-> "", value |-> v]

Raised(e) ==
    [exc |-> e, value |-> PyNone]

ReturnedMethod(m) ==
    [exc |-> "", value |-> m]

RaisedMethod(e) ==
    [exc |-> e, value |-> NoMethod]

\* ------------------------------------------------------- PoolingFactory
\* Variant of PoolingMode that tests the cls flag alone
PoolingModeNoMean(c) ==
    IF c.cls = "missing" THEN RaisedMethod("KeyError")
    ELSE IF c.cls = "true" THEN ReturnedMethod("clspooling")
    ELSE ReturnedMethod("meanpooling")

\* config["pooling_mode_cls_token"] and not config["pooling_mode_mean_tokens"]
\* on a loaded object: a missing key raises KeyError, and the expression is
\* evaluated left to right with short circuit.
PoolingMode(c) ==
    IF c.cls = "missing" THEN RaisedMethod("KeyError")
    ELSE IF c.cls = "false" THEN ReturnedMethod("meanpooling")
    ELSE IF c.mean = "missing" THEN RaisedMethod("KeyError")
    ELSE IF c.mean = "false" THEN ReturnedMethod("clspooling")
    ELSE ReturnedMethod("meanpooling")

\* Variant of PoolingFactory.method without the except clause
PoolingFactory_methodUncaught(remote, p) ==
    LET c == PoolingFactory_load(remote, p, PoolingFile)
    IN  IF c.st = "notfound" THEN RaisedMethod("EntryNotFoundError")
        ELSE IF c.st = "error" THEN RaisedMethod("OSError")
        ELSE PoolingMode(c)

\* PoolingFactory.method(path)
PoolingFactory_method(remote, p) ==
    LET c == PoolingFactory_load(remote, p, PoolingFile)
    IN  IF c.st = "notfound" THEN ReturnedMethod("meanpooling")
        ELSE IF c.st = "error" THEN RaisedMethod("OSError")
        ELSE PoolingMode(c)

\* PoolingFactory.maxlength(path)
PoolingFactory_maxlength(remote, p) ==
    LET c == PoolingFactory_load(remote, p, TokenizerFile)
    IN  IF c.st = "notfound" THEN Returned(PyNone)
        ELSE IF c.st = "error" THEN Raised("OSError")
        ELSE IF c.has THEN Returned(c.max_seq_length)
        ELSE Returned(PyNone)

\* Variants of DeriveLength: any bool, any truthy value, never
DeriveLengthAnyBool(ml) ==
    IsBool(ml)

DeriveLengthTruthy(ml) ==
    Truthy(ml)

DeriveLengthNever(ml) ==
    FALSE

\* isinstance(maxlength, bool) and maxlength
DeriveLength(ml) ==
    IsBool(ml) /\ Truthy(ml)

\* Variant of IsRaw without the method test
IsRawNoMethod(fs, p, m) ==
    \/ IsBytes(p)
    \/ (IsStr(p) /\ isfile(fs, p))

\* isinstance(path, bytes) or (isinstance(path, str) and os.path.isfile(path))
\* or method == "pooling"
IsRaw(fs, p, m) ==
    \/ IsBytes(p)
    \/ (IsStr(p) /\ isfile(fs, p))
    \/ m = "pooling"

\* Variant of DeriveMethod with os.path.isfile in place of os.path.exists
DeriveMethodNotFile(fs, p, m) ==
    /\ (MethodFalsy(m) \/ m \notin {"clspooling", "meanpooling"})
    /\ (IsStr(p) /\ ~isfile(fs, p))

\* (not method or method not in ("clspooling", "meanpooling")) and
\* (isinstance(path, str) and not os.path.exists(path))
DeriveMethod(fs, p, m) ==
    /\ (MethodFalsy(m) \/ m \notin {"clspooling", "meanpooling"})
    /\ (IsStr(p) /\ ~exists(fs, p))

\* Variant of Strategy that constructs MeanPooling only for "meanpooling"
StrategyNotMean(m) ==
    IF m # "meanpooling" THEN "ClsPooling" ELSE "MeanPooling"

\* The class constructed by the last two statements of create
Strategy(m) ==
    IF m = "clspooling" THEN "ClsPooling" ELSE "MeanPooling"

\* Variant of ConfigAfterGet for config.pop(x): the keys are removed
ConfigAfterPop(c) ==
    [method |-> NoMethod, path |-> NonePath, maxlength |-> PyNone]

\* The caller's mapping after create has read it: config.get leaves it alone
ConfigAfterGet(c) ==
    c

\* --------------------------------------------------------------- state
VARIABLES
    config,     \* the mapping the caller passes to create
    fs,         \* local file system: kind of each string path
    remote,     \* Hub repository: outcome of loading each config file
    pc,         \* position in create
    call,       \* number of create calls started
    method,     \* local variables of create
    path,
    maxlength,
    lookups,    \* file names passed to load during the current call
    result,     \* outcome of the current call
    prev        \* outcome of the previous call

vars ==
    <<config, fs, remote, pc, call, method, path, maxlength, lookups, result, prev>>

StrategyKinds ==
    {"Pooling", "ClsPooling", "MeanPooling"}

NoResult ==
    [kind |-> "", path |-> NonePath, maxlength |-> PyNone]

\* Pooling(path, device, tokenizer, maxlength, modelargs) and its subclasses
Instance(kind, p, ml) ==
    [kind |-> kind, path |-> p, maxlength |-> ml]

\* An exception leaving create
Failure(e) ==
    [kind |-> e, path |-> NonePath, maxlength |-> PyNone]

Init ==
    /\ config \in Configs
    /\ fs \in [StrPaths -> FsKinds]
    /\ remote \in {(PoolingFile :> p) @@ (TokenizerFile :> t) :
                        p \in PoolingStates, t \in TokenizerStates}
    /\ pc = "idle"
    /\ call = 0
    /\ method = NoMethod
    /\ path = NonePath
    /\ maxlength = PyNone
    /\ lookups = <<>>
    /\ result = NoResult
    /\ prev = NoResult

\* create, lines 34-36: unpack parameters
Unpack ==
    /\ pc \in {"idle", "done"}
    /\ call < MaxCalls
    /\ call' = call + 1
    /\ method' = config.method
    /\ path' = config.path
    /\ maxlength' = config.maxlength
    /\ config' = ConfigAfterGet(config)
    /\ lookups' = <<>>
    /\ prev' = result
    /\ result' = NoResult
    /\ pc' = "maxlength"
    /\ UNCHANGED <<fs, remote>>

\* create, line 39: derive maxlength, if applicable
Maxlength ==
    /\ pc = "maxlength"
    /\ IF DeriveLength(maxlength)
       THEN LET r == PoolingFactory_maxlength(remote, path)
            IN  /\ lookups' = Append(lookups, TokenizerFile)
                /\ IF r.exc # ""
                   THEN /\ result' = Failure(r.exc)
                        /\ pc' = "done"
                        /\ UNCHANGED maxlength
                   ELSE /\ maxlength' = r.value
                        /\ pc' = "raw"
                        /\ UNCHANGED result
       ELSE /\ pc' = "raw"
            /\ UNCHANGED <<maxlength, lookups, result>>
    /\ UNCHANGED <<config, fs, remote, call, method, path, prev>>

\* create, lines 42-43: default pooling returns hidden state
Raw ==
    /\ pc = "raw"
    /\ IF IsRaw(fs, path, method)
       THEN /\ result' = Instance("Pooling", path, maxlength)
            /\ pc' = "done"
       ELSE /\ pc' = "method"
            /\ UNCHANGED result
    /\ UNCHANGED <<config, fs, remote, call, method, path, maxlength, lookups, prev>>

\* create, lines 46-47: derive pooling method
Method ==
    /\ pc = "method"
    /\ IF DeriveMethod(fs, path, method)
       THEN LET r == PoolingFactory_method(remote, path)
            IN  /\ lookups' = Append(lookups, PoolingFile)
                /\ IF r.exc # ""
                   THEN /\ result' = Failure(r.exc)
                        /\ pc' = "done"
                        /\ UNCHANGED method
                   ELSE /\ method' = r.value
                        /\ pc' = "select"
                        /\ UNCHANGED result
       ELSE /\ pc' = "select"
            /\ UNCHANGED <<method, lookups, result>>
    /\ UNCHANGED <<config, fs, remote, call, path, maxlength, prev>>

\* create, lines 50-54: ClsPooling, or MeanPooling by default
Select ==
    /\ pc = "select"
    /\ result' = Instance(Strategy(method), path, maxlength)
    /\ pc' = "done"
    /\ UNCHANGED <<config, fs, remote, call, method, path, maxlength, lookups, prev>>

Next ==
    \/ Unpack
    \/ Maxlength
    \/ Raw
    \/ Method
    \/ Select

Spec ==
    Init /\ [][Next]_vars

\* ------------------------------------------------------------ properties
\* The condition of create's first return, stated on the caller's inputs
RawCondition ==
    \/ config.path = BytesPath
    \/ (config.path \in StrPaths /\ fs[config.path] = "file")
    \/ config.method = "pooling"

\* The path names a model on the Hub: a string that is not on local storage
RemotePath ==
    config.path \in StrPaths /\ fs[config.path] = "missing"

Pinned ==
    config.method \in {"clspooling", "meanpooling"}

Looked(name) ==
    \E i \in 1..Len(lookups) : lookups[i] = name

\* create has returned an instance
ReturnedStrategy ==
    pc = "done" /\ result.kind \in StrategyKinds

Positive(v) ==
    v.t = "int" /\ v.n > 0

\* C1: when path is bytes, or a string naming an existing local file, or
\* method is "pooling", the instance create returns is a raw Pooling, never
\* ClsPooling or MeanPooling, whatever the other fields are; create fails to
\* return only when the maxlength lookup of line 39 failed with an error
\* other than EntryNotFoundError.
C1_RawReturnsPooling ==
    (pc = "done" /\ RawCondition) =>
        \/ result.kind = "Pooling"
        \/ /\ result.kind = "OSError"
           /\ config.maxlength = PyTrue
           /\ remote[TokenizerFile].st = "error"

C1_Witness ==
    /\ pc = "done"
    /\ config.path \in StrPaths
    /\ fs[config.path] = "file"
    /\ config.method = "clspooling"
    /\ result.kind = "Pooling"

\* C2 as stated: under the raw condition no config file is ever loaded, for
\* every value of maxlength.
C2_NoLookupWhenRaw ==
    RawCondition => lookups = <<>>

\* C2 amended: under the raw condition the pooling config is never loaded,
\* and the tokenizer config is loaded exactly when maxlength is the boolean
\* true: once, by line 39, before the raw Pooling is returned.
C2_RawLookups ==
    RawCondition =>
        /\ ~Looked(PoolingFile)
        /\ (config.maxlength # PyTrue => lookups = <<>>)
        /\ (config.maxlength = PyTrue /\ pc \in {"raw", "done"}
                => lookups = <<TokenizerFile>>)

C2_Witness ==
    /\ pc = "done"
    /\ config.path \in StrPaths
    /\ fs[config.path] = "file"
    /\ config.maxlength = PyTrue
    /\ lookups = <<TokenizerFile>>
    /\ result.kind = "Pooling"

\* C3: when the pooling config is present with both flags, method(path) is
\* "clspooling" exactly when the cls flag is true and the mean flag is false,
\* and "meanpooling" for the three other combinations.
C3_MethodFromFlags ==
    (/\ pc = "select"
     /\ Looked(PoolingFile)
     /\ remote[PoolingFile].st = "found"
     /\ remote[PoolingFile].cls # "missing"
     /\ remote[PoolingFile].mean # "missing")
        => method = IF remote[PoolingFile].cls = "true" /\ remote[PoolingFile].mean = "false"
                    THEN "clspooling"
                    ELSE "meanpooling"

C3_Witness ==
    /\ pc = "select"
    /\ Looked(PoolingFile)
    /\ remote[PoolingFile].st = "found"
    /\ remote[PoolingFile].cls = "true"
    /\ remote[PoolingFile].mean = "true"
    /\ method = "meanpooling"

\* C4: EntryNotFoundError never leaves create. With the pooling config absent
\* an unpinned remote model id gets MeanPooling; with maxlength true and the
\* tokenizer config absent the instance gets maxlength None; create returns
\* an instance in both cases unless the other file's load fails otherwise.
C4_NotFoundAbsorbed ==
    /\ result.kind # "EntryNotFoundError"
    /\ (/\ pc = "done"
        /\ ~RawCondition
        /\ ~Pinned
        /\ RemotePath
        /\ remote[PoolingFile].st = "notfound"
        /\ ~(config.maxlength = PyTrue /\ remote[TokenizerFile].st = "error"))
            => result.kind = "MeanPooling"
    /\ (/\ pc = "done"
        /\ config.maxlength = PyTrue
        /\ remote[TokenizerFile].st = "notfound")
            => \/ result.kind \in StrategyKinds /\ result.maxlength = PyNone
               \/ result.kind \in {"KeyError", "OSError"} /\ Looked(PoolingFile)

C4_Witness ==
    /\ pc = "done"
    /\ ~Pinned
    /\ RemotePath
    /\ config.maxlength = PyTrue
    /\ remote[PoolingFile].st = "notfound"
    /\ remote[TokenizerFile].st = "notfound"
    /\ lookups = <<TokenizerFile, PoolingFile>>
    /\ result.kind = "MeanPooling"
    /\ result.maxlength = PyNone

\* C5 as stated: a present pooling config lacking any subset of the two flags
\* makes method return "meanpooling" without error, and a present tokenizer
\* config lacking max_seq_length makes maxlength return None without error.
C5_IncompleteNeverRaises ==
    /\ (/\ pc \in {"select", "done"}
        /\ Looked(PoolingFile)
        /\ remote[PoolingFile].st = "found"
        /\ (remote[PoolingFile].cls = "missing" \/ remote[PoolingFile].mean = "missing"))
            => /\ method = "meanpooling"
               /\ result.kind # "KeyError"
    /\ (/\ pc = "raw"
        /\ Looked(TokenizerFile)
        /\ remote[TokenizerFile].st = "found"
        /\ ~remote[TokenizerFile].has)
            => maxlength = PyNone

\* C6: the tokenizer config is loaded if and only if the configured
\* maxlength is the boolean true; the instance then gets the file's
\* max_seq_length, or None if the file or the field is absent; every other
\* maxlength reaches the instance unchanged.
C6_LengthLookup ==
    /\ Looked(TokenizerFile) => config.maxlength = PyTrue
    /\ (config.maxlength = PyTrue /\ pc \notin {"idle", "maxlength"})
            => Looked(TokenizerFile)
    /\ ReturnedStrategy =>
            result.maxlength =
                IF config.maxlength = PyTrue
                THEN IF remote[TokenizerFile].st = "found" /\ remote[TokenizerFile].has
                     THEN remote[TokenizerFile].max_seq_length
                     ELSE PyNone
                ELSE config.maxlength

C6_Witness ==
    /\ ReturnedStrategy
    /\ config.maxlength = PyTrue
    /\ remote[TokenizerFile].st = "found"
    /\ remote[TokenizerFile].has
    /\ remote[TokenizerFile].max_seq_length = PyInt(MaxLen)
    /\ result.maxlength = PyInt(MaxLen)

\* C7 as stated: the maxlength of the returned instance is None or a
\* positive integer.
C7_NoneOrPositive ==
    ReturnedStrategy => (result.maxlength = PyNone \/ Positive(result.maxlength))

\* C7 amended: the maxlength of the returned instance is never the boolean
\* true; when the max_seq_length read from the tokenizer config is a positive
\* integer (or none is read), it is None, the boolean false (a configured
\* false passes through) or a positive integer.
C7_NoneFalseOrPositive ==
    ReturnedStrategy =>
        /\ result.maxlength # PyTrue
        /\ (Looked(TokenizerFile) /\ remote[TokenizerFile].st = "found" /\ remote[TokenizerFile].has
                => Positive(remote[TokenizerFile].max_seq_length))
            => \/ result.maxlength \in {PyNone, PyFalse}
               \/ Positive(result.maxlength)

C7_Witness ==
    /\ ReturnedStrategy
    /\ config.maxlength = PyFalse
    /\ result.maxlength = PyFalse

\* C8: the pooling config is loaded only when the raw condition is false,
\* method is not "clspooling" or "meanpooling", and path is a string that
\* does not exist locally. A pinned method on a remote model id is honoured
\* whatever the Hub says; a local directory with no method gets MeanPooling
\* without a lookup.
C8_MethodLookupGuard ==
    /\ Looked(PoolingFile) => (~RawCondition /\ ~Pinned /\ RemotePath)
    /\ (ReturnedStrategy /\ ~RawCondition /\ Pinned)
            => /\ ~Looked(PoolingFile)
               /\ result.kind = IF config.method = "clspooling"
                                THEN "ClsPooling"
                                ELSE "MeanPooling"
    /\ (/\ ReturnedStrategy
        /\ config.path \in StrPaths
        /\ fs[config.path] = "dir"
        /\ MethodFalsy(config.method))
            => /\ ~Looked(PoolingFile)
               /\ result.kind = "MeanPooling"

C8_Witness ==
    /\ ReturnedStrategy
    /\ config.path \in StrPaths
    /\ fs[config.path] = "dir"
    /\ config.method = NoMethod
    /\ remote[PoolingFile].st = "found"
    /\ remote[PoolingFile].cls = "true"
    /\ remote[PoolingFile].mean = "false"
    /\ result.kind = "MeanPooling"

\* C9: a second create call on the same configuration, file system and Hub
\* state ends as the first did: same class, same path and maxlength, or the
\* same exception.
C9_Idempotent ==
    (pc = "done" /\ call >= 2) => result = prev

C9_Witness ==
    /\ pc = "done"
    /\ call = 2
    /\ config.maxlength = PyTrue
    /\ config.method = NoMethod
    /\ lookups = <<TokenizerFile, PoolingFile>>
    /\ result.kind = "ClsPooling"
    /\ result.maxlength = PyInt(1)
    /\ prev = result

\* C10: when the raw condition is false and create returns, the instance is
\* ClsPooling exactly when method, after the optional lookup, is
\* "clspooling", and MeanPooling otherwise: for no method, an unrecognized
\* method and a path that is neither str nor bytes alike.
C10_ClsOrMean ==
    (ReturnedStrategy /\ ~RawCondition) =>
        /\ result.kind \in {"ClsPooling", "MeanPooling"}
        /\ (result.kind = "ClsPooling" <=> method = "clspooling")

C10_Witness ==
    /\ ReturnedStrategy
    /\ config.method = "maxpooling"
    /\ config.path = NonePath
    /\ method = "maxpooling"
    /\ result.kind = "MeanPooling"

====
